---- MODULE Spec2Model ----
(***************************************************************************)
(* Model of the <tp-lorem> placeholder-text generator                      *)
(* (packages/components/src/components/lorem/lorem.ts) and of the number   *)
(* utilities it uses (packages/components/src/utilities/maths.ts).         *)
(*                                                                         *)
(* Strings are sequences of one-character strings, so that split, join,    *)
(* charAt, slice, toUpperCase and trim are computed on characters.         *)
(* JavaScript numbers are records: finite integers, NaN, +Infinity and     *)
(* -Infinity.  A value of the number generator (a float in [0, 1)) is the  *)
(* numerator k of the fraction k / Den.                                    *)
(***************************************************************************)
EXTENDS Integers, Sequences, FiniteSets, TLC

\* ------------------------------------------------------------------------
\* Bounds of the model
\* ------------------------------------------------------------------------

\* How many times connectedCallback may run on one element.
MaxConnects == 2

\* Longest string or array the engine can build before it throws RangeError
\* (scaled down; longer than any output of a finite configuration below).
MaxStringLength == 120

\* Longest array the engine can build before it throws RangeError.
MaxArrayLength == 20

\* ------------------------------------------------------------------------
\* Program constants
\* ------------------------------------------------------------------------

\* lorem.ts:191
commaFrequency == 10

\* Resolution of the grid of generator values: the value k / Den is
\* written k, for k in 0 .. Den - 1.
Den == 2 * (commaFrequency + 1)

Grid == 0 .. (Den - 1)

\* ------------------------------------------------------------------------
\* JavaScript numbers
\* ------------------------------------------------------------------------

Fin(n) == [t |-> "fin", n |-> n]

NaN == [t |-> "nan", n |-> 0]

Infinity == [t |-> "inf", n |-> 1]

NegInfinity == [t |-> "inf", n |-> -1]

\* a + b
JsAdd(a, b) ==
  IF a.t = "nan" \/ b.t = "nan" THEN NaN
  ELSE IF a.t = "inf" /\ b.t = "inf" THEN (IF a.n = b.n THEN a ELSE NaN)
  ELSE IF a.t = "inf" THEN a
  ELSE IF b.t = "inf" THEN b
  ELSE Fin(a.n + b.n)

\* a - b
JsSub(a, b) ==
  JsAdd(a, IF b.t = "nan" THEN NaN ELSE [t |-> b.t, n |-> 0 - b.n])

\* Math.floor(value * x), for a generator value k / Den and a number x
MathFloorTimes(k, x) ==
  IF x.t = "nan" THEN NaN
  ELSE IF x.t = "inf" THEN (IF k = 0 THEN NaN ELSE x)
  ELSE Fin((k * x.n) \div Den)

\* i < n, for a loop counter i and a number n
JsLess(i, n) ==
  IF n.t = "nan" THEN FALSE
  ELSE IF n.t = "inf" THEN n.n > 0
  ELSE i < n.n

\* x || 0
OrZero(x) == IF x.t = "nan" \/ x = Fin(0) THEN Fin(0) ELSE x

\* ------------------------------------------------------------------------
\* Strings
\* ------------------------------------------------------------------------

Digits == <<"0", "1", "2", "3", "4", "5", "6", "7", "8", "9">>

IsDigit(c) == \E d \in 1..10 : Digits[d] = c

DigitValue(c) == (CHOOSE d \in 1..10 : Digits[d] = c) - 1

RECURSIVE DecimalValue(_)
DecimalValue(s) ==
  IF s = <<>> THEN 0
  ELSE 10 * DecimalValue(SubSeq(s, 1, Len(s) - 1)) + DigitValue(s[Len(s)])

InfinityWord == <<"I", "n", "f", "i", "n", "i", "t", "y">>

\* Number(s) of a string of digits, letters: "" is 0, a digit string is its
\* decimal value, "Infinity" is Infinity, anything else is NaN.
Number(s) ==
  IF s = <<>> THEN Fin(0)
  ELSE IF \A i \in 1..Len(s) : IsDigit(s[i]) THEN Fin(DecimalValue(s))
  ELSE IF s = InfinityWord THEN Infinity
  ELSE NaN

\* s.includes(c)
Includes(s, c) == \E i \in 1..Len(s) : s[i] = c

\* s.split(c)
RECURSIVE Split(_, _)
Split(s, c) ==
  IF ~Includes(s, c) THEN <<s>>
  ELSE LET p == CHOOSE i \in 1..Len(s) :
                  s[i] = c /\ \A k \in 1..(i - 1) : s[k] # c
       IN <<SubSeq(s, 1, p - 1)>> \o Split(SubSeq(s, p + 1, Len(s)), c)

\* c.toUpperCase() of one character
ToUpperCase(c) ==
  CASE c = "a" -> "A"
    [] c = "d" -> "D"
    [] c = "e" -> "E"
    [] c = "t" -> "T"
    [] OTHER -> c

\* The string left as it is
CapitalizeFirst_none(s) == s

\* s.charAt(0).toUpperCase() + s.slice(1)
CapitalizeFirst(s) ==
  IF s = <<>> THEN <<>> ELSE <<ToUpperCase(s[1])>> \o Tail(s)

\* words.join(sep)
RECURSIVE Join(_, _)
Join(words, sep) ==
  IF words = <<>> THEN <<>>
  ELSE IF Len(words) = 1 THEN words[1]
  ELSE words[1] \o sep \o Join(Tail(words), sep)

\* s.trim(): the strings built here carry white space at the end only
RECURSIVE Trim(_)
Trim(s) ==
  IF s # <<>> /\ s[Len(s)] = " " THEN Trim(SubSeq(s, 1, Len(s) - 1))
  ELSE IF s # <<>> /\ s[1] = " " THEN Trim(Tail(s))
  ELSE s

\* ------------------------------------------------------------------------
\* Property values: a number or a string
\* ------------------------------------------------------------------------

Num(x) == [typeof |-> "number", num |-> x, str |-> <<>>]

Str(s) == [typeof |-> "string", num |-> NaN, str |-> s]

\* ------------------------------------------------------------------------
\* utilities/maths.ts
\* ------------------------------------------------------------------------

\* clampRandom that rounds to the nearest integer instead of flooring
clampRandom_round(value, min, max) ==
  LET span == JsAdd(JsSub(max, min), Fin(1)) IN
  IF span.t = "fin"
  THEN JsAdd(Fin((2 * value * span.n + Den) \div (2 * Den)), min)
  ELSE JsAdd(MathFloorTimes(value, span), min)

\* clampRandom with an exclusive upper bound: the "+ 1" is dropped
clampRandom_exclusive(value, min, max) ==
  JsAdd(MathFloorTimes(value, JsSub(max, min)), min)

\* clampRandom(value, min, max): Math.floor(value * (max - min + 1)) + min
clampRandom(value, min, max) ==
  JsAdd(MathFloorTimes(value, JsAdd(JsSub(max, min), Fin(1))), min)

\* frac(Math.sin(x) * 10000) on the grid: entry k + 1 is
\* floor(Den * frac(sin(k / Den) * 10000)).
SinTable ==
  <<0, 8, 18, 9, 3, 4, 12, 8, 16, 16, 11, 5, 1, 3, 16, 1, 7, 19, 0, 2, 10, 11>>

\* The same for the integer seeds 0 .. 5: floor(Den * frac(sin(seed) * 10000)).
SeedTable == <<0, 15, 21, 4, 21, 16>>

\* What the closure returned by seededNumberGenerator computes from
\* currentSeed: Math.sin(currentSeed) * 10000, minus its floor.  A seed s >= 1
\* is held as s * Den, a value of [0, 1) as its numerator.
SinFrac(currentSeed) ==
  IF currentSeed < Den THEN SinTable[currentSeed + 1]
  ELSE SeedTable[(currentSeed \div Den) + 1]

\* seededNumberGenerator(seed): the closure, with its captured variable
seededNumberGenerator(seed) == [kind |-> "seeded", currentSeed |-> seed.n * Den]

\* () => Math.random()
MathRandom == [kind |-> "random", currentSeed |-> 0]

\* The values a call of the generator g can return
NextValues(g) ==
  IF g.kind = "random" THEN Grid ELSE {SinFrac(g.currentSeed)}

\* The generator after a call that returned value
Advance(g, value) ==
  IF g.kind = "random" THEN g ELSE [g EXCEPT !.currentSeed = value]

\* ------------------------------------------------------------------------
\* lorem.ts: pure parts
\* ------------------------------------------------------------------------

\* dictionary.js: the word list
DICTIONARY == << <<"a", "d">>, <<"e", "t">> >>

Undefined == [typeof |-> "undefined", num |-> NaN, str |-> <<>>]

\* Number(parsedRange[i]) || 0; a missing part is undefined, and
\* Number(undefined) is NaN
Bound(parsedRange, i) ==
  IF i <= Len(parsedRange) THEN OrZero(Number(parsedRange[i])) ELSE Fin(0)

\* getNumberWithinRange without the early return for a string that has no
\* "-": such a string is split and resolved as a range
getNumberWithinRange_noStringReturn(range, value) ==
  IF range.typeof = "number"
    THEN [result |-> OrZero(range.num), drew |-> FALSE]
  ELSE LET parsedRange == Split(range.str, "-")
           min == Bound(parsedRange, 1)
           max == Bound(parsedRange, 2)
       IN [result |-> clampRandom(value, min, max), drew |-> TRUE]

\* getNumberWithinRange(range), where value is what this.generateNumber()
\* returns if it is called; drew tells whether it was called.
getNumberWithinRange(range, value) ==
  IF range.typeof = "number"
    THEN [result |-> OrZero(range.num), drew |-> FALSE]
  ELSE IF range.typeof = "string" /\ ~Includes(range.str, "-")
    THEN [result |-> OrZero(Number(range.str)), drew |-> FALSE]
  ELSE LET parsedRange == Split(range.str, "-")
           min == Bound(parsedRange, 1)
           max == Bound(parsedRange, 2)
       IN [result |-> clampRandom(value, min, max), drew |-> TRUE]

\* The index drawn by generateWords: clampRandom(v, 0, DICTIONARY.length - 1)
WordIndex(value) == clampRandom(value, Fin(0), Fin(Len(DICTIONARY) - 1))

\* addComma: clampRandom(v, 0, commaFrequency) === 0
AddComma(value) == clampRandom(value, Fin(0), Fin(commaFrequency)) = Fin(0)

\* The title of generateTitle: every word capitalized, joined by one space
RECURSIVE CapitalizeAll(_)
CapitalizeAll(words) ==
  IF words = <<>> THEN <<>>
  ELSE <<CapitalizeFirst(words[1])>> \o CapitalizeAll(Tail(words))

Title(words) == Join(CapitalizeAll(words), <<" ">>)

\* The characters of an element name
TagName(t) ==
  CASE t = "ul" -> <<"u", "l">>
    [] t = "ol" -> <<"o", "l">>
    [] t = "dl" -> <<"d", "l">>
    [] t = "li" -> <<"l", "i">>
    [] t = "dt" -> <<"d", "t">>
    [] t = "dd" -> <<"d", "d">>
    [] t = "p" -> <<"p">>

Open(t) == <<"<">> \o TagName(t) \o <<">">>

Close(t) == <<"<", "/">> \o TagName(t) \o <<">">>

\* `<t>${s}</t>`
Wrap(t, s) == Open(t) \o s \o Close(t)

\* ------------------------------------------------------------------------
\* State
\* ------------------------------------------------------------------------

\* The <tp-lorem> elements a page can hold
Elements == {1, 2}

VARIABLES
  elements,               \* the elements constructed on the page
  type,                   \* per element: the property of that name
  length,
  seed,
  wordsPerSentence,
  sentencesPerParagraph,
  generated,              \* per element: the @state() field
  generateNumber,         \* per element: the generator field
  pc,                     \* per element: the stack of program positions
  local,                  \* per element: the local variables of each method
  outcome,                \* per element: how the last connectedCallback ended
  connects,               \* per element: connectedCallback calls so far
  atConnect,              \* per element: the properties as they were when
                          \* the last connectedCallback began
  rendered,               \* per element: what render() last put in the DOM
  lastCall                \* per element: the draw made by the last step

vars == <<elements, type, length, seed, wordsPerSentence,
          sentencesPerParagraph, generated, generateNumber, pc, local,
          outcome, connects, atConnect, rendered, lastCall>>

props == <<elements, type, length, seed, wordsPerSentence,
           sentencesPerParagraph>>

\* What no step of a method touches
frame == <<atConnect, rendered>>

NoCall == [fn |-> "none", range |-> Undefined, drew |-> FALSE, value |-> 0,
           result |-> NaN, before |-> MathRandom, after |-> MathRandom]

InitLocal ==
  [generateWords |-> [length |-> Fin(0), i |-> 0, words |-> <<>>],
   generateTitle |-> [numWords |-> Fin(0)],
   generateSentences |-> [numSentences |-> Fin(0), sentences |-> <<>>, i |-> 0,
                          numWords |-> Fin(0), words |-> <<>>,
                          sentence |-> <<>>, j |-> 0],
   generateParagraphs |-> [numParagraphs |-> Fin(0), paragraphs |-> <<>>,
                           i |-> 0],
   generateList |-> [numItems |-> Fin(0), items |-> <<>>, i |-> 0,
                     numWords |-> Fin(0), item |-> <<>>],
   words |-> <<>>,        \* the array returned by the last generateWords
   string |-> <<>>]       \* the string returned by the last other method

\* The field initializers of the class (lorem.ts:75-106)
DefaultType == "paragraph"

DefaultLength == Str(<<"3", "-", "5">>)

DefaultWordsPerSentence == Str(<<"4", "-", "1", "6">>)

DefaultSentencesPerParagraph == Str(<<"3", "-", "6">>)

\* ------------------------------------------------------------------------
\* Steps of connectedCallback -> generateContent
\* ------------------------------------------------------------------------

At(e, label) == pc[e] # <<>> /\ Head(pc[e]) = label

Goto(e, label) == [pc EXCEPT ![e] = <<label>> \o Tail(pc[e])]

CallFrom(e, callee, back) == [pc EXCEPT ![e] = <<callee, back>> \o Tail(pc[e])]

ReturnFrom(e) == [pc EXCEPT ![e] = Tail(pc[e])]

\* The first method generateContent calls for a type (lorem.ts:252-267)
Entry(t) ==
  CASE t = "title" -> <<"generateTitle">>
    [] t = "sentence" -> <<"generateSentences">>
    [] t = "paragraph" -> <<"generateParagraphs">>
    [] t \in {"ol", "ul", "dl"} -> <<"generateList">>
    [] OTHER -> <<>>

\* Math.random whatever the seed
NumberGenerator_random(s) == MathRandom

\* The seed tested for truth, not for undefined: 0 selects Math.random
NumberGenerator_falsySeed(s) ==
  IF s.typeof = "undefined" \/ s.num = Fin(0) THEN MathRandom
  ELSE seededNumberGenerator(s.num)

\* Which generator generateContent installs (lorem.ts:249-250)
NumberGenerator(s) ==
  IF s.typeof = "undefined" THEN MathRandom ELSE seededNumberGenerator(s.num)

\* One call of getNumberWithinRange(range) by element e, the generator
\* returning value if it is called: the result, the generator afterwards and
\* the record of the call.
Resolve(e, range, value) ==
  LET r == getNumberWithinRange(range, value)
      g == IF r.drew THEN Advance(generateNumber[e], value)
           ELSE generateNumber[e]
  IN [result |-> r.result,
      after |-> g,
      call |-> [fn |-> "getNumberWithinRange", range |-> range,
                drew |-> r.drew, value |-> IF r.drew THEN value ELSE 0,
                result |-> r.result,
                before |-> generateNumber[e], after |-> g]]

\* A RangeError leaves connectedCallback before it assigns this.generated
Throw(e) ==
  /\ pc' = [pc EXCEPT ![e] = <<>>]
  /\ outcome' = [outcome EXCEPT ![e] = "thrown"]
  /\ lastCall' = [lastCall EXCEPT ![e] = NoCall]
  /\ UNCHANGED <<props, generated, generateNumber, local, connects, frame>>

\* connectedCallback up to the dispatch of generateContent (lorem.ts:108-111,
\* 247-252)
ConnectedCallback(e) ==
  /\ e \in elements
  /\ pc[e] = <<>>
  /\ connects[e] < MaxConnects
  /\ connects' = [connects EXCEPT ![e] = @ + 1]
  /\ generateNumber' = [generateNumber EXCEPT ![e] = NumberGenerator(seed[e])]
  /\ local' = [local EXCEPT ![e] = InitLocal]
  /\ pc' = [pc EXCEPT ![e] = Entry(type[e]) \o <<"generateContent">>]
  /\ outcome' = [outcome EXCEPT ![e] = "running"]
  /\ lastCall' = [lastCall EXCEPT ![e] = NoCall]
  /\ atConnect' = [atConnect EXCEPT ![e] =
                     [type |-> type[e], length |-> length[e],
                      wordsPerSentence |-> wordsPerSentence[e],
                      sentencesPerParagraph |-> sentencesPerParagraph[e],
                      seed |-> seed[e]]]
  /\ UNCHANGED <<props, generated, rendered>>

\* return content; this.generated = ... (lorem.ts:268, 110)
GenerateContentReturn(e) ==
  /\ At(e, "generateContent")
  /\ generated' = [generated EXCEPT ![e] = local[e].string]
  /\ pc' = ReturnFrom(e)
  /\ outcome' = [outcome EXCEPT ![e] = "returned"]
  /\ lastCall' = [lastCall EXCEPT ![e] = NoCall]
  /\ UNCHANGED <<props, generateNumber, local, connects, frame>>

\* generateWords: one iteration of the loop (lorem.ts:127-130)
GenerateWords(e) ==
  /\ At(e, "generateWords")
  /\ JsLess(local[e].generateWords.i, local[e].generateWords.length)
  /\ IF Len(local[e].generateWords.words) >= MaxArrayLength
     THEN Throw(e)
     ELSE \E value \in NextValues(generateNumber[e]) :
       LET index == WordIndex(value) IN
       /\ generateNumber' =
            [generateNumber EXCEPT ![e] = Advance(@, value)]
       /\ local' = [local EXCEPT
            ![e].generateWords.words = Append(@, DICTIONARY[index.n + 1]),
            ![e].generateWords.i = @ + 1]
       /\ lastCall' = [lastCall EXCEPT ![e] = NoCall]
       /\ UNCHANGED <<props, generated, pc, outcome, connects, frame>>

\* generateWords: the loop ends, return words (lorem.ts:131)
GenerateWordsReturn(e) ==
  /\ At(e, "generateWords")
  /\ ~JsLess(local[e].generateWords.i, local[e].generateWords.length)
  /\ local' = [local EXCEPT ![e].words = local[e].generateWords.words]
  /\ pc' = ReturnFrom(e)
  /\ lastCall' = [lastCall EXCEPT ![e] = NoCall]
  /\ UNCHANGED <<props, generated, generateNumber, outcome, connects, frame>>

\* generateTitle: resolve the length, call generateWords (lorem.ts:223-224)
GenerateTitle(e) ==
  /\ At(e, "generateTitle")
  /\ \E value \in NextValues(generateNumber[e]) :
       LET r == Resolve(e, length[e], value) IN
       /\ generateNumber' = [generateNumber EXCEPT ![e] = r.after]
       /\ lastCall' = [lastCall EXCEPT ![e] = r.call]
       /\ local' = [local EXCEPT
            ![e].generateTitle.numWords = r.result,
            ![e].generateWords = [length |-> r.result, i |-> 0,
                                  words |-> <<>>]]
  /\ pc' = CallFrom(e, "generateWords", "generateTitle:words")
  /\ UNCHANGED <<props, generated, outcome, connects, frame>>

\* generateTitle: capitalize, join, return (lorem.ts:225-229)
GenerateTitleReturn(e) ==
  /\ At(e, "generateTitle:words")
  /\ local' = [local EXCEPT ![e].string = Title(local[e].words)]
  /\ pc' = ReturnFrom(e)
  /\ lastCall' = [lastCall EXCEPT ![e] = NoCall]
  /\ UNCHANGED <<props, generated, generateNumber, outcome, connects, frame>>

\* generateSentences: resolve the number of sentences (lorem.ts:191-193)
GenerateSentences(e) ==
  /\ At(e, "generateSentences")
  /\ \E value \in NextValues(generateNumber[e]) :
       LET r == Resolve(e, length[e], value) IN
       /\ generateNumber' = [generateNumber EXCEPT ![e] = r.after]
       /\ lastCall' = [lastCall EXCEPT ![e] = r.call]
       /\ local' = [local EXCEPT
            ![e].generateSentences.numSentences = r.result,
            ![e].generateSentences.sentences = <<>>,
            ![e].generateSentences.i = 0]
  /\ pc' = Goto(e, "generateSentences:for")
  /\ UNCHANGED <<props, generated, outcome, connects, frame>>

\* generateSentences: a sentence begins: resolve its number of words and
\* call generateWords (lorem.ts:194-197)
GenerateSentencesFor(e) ==
  /\ At(e, "generateSentences:for")
  /\ JsLess(local[e].generateSentences.i,
            local[e].generateSentences.numSentences)
  /\ \E value \in NextValues(generateNumber[e]) :
       LET r == Resolve(e, wordsPerSentence[e], value) IN
       /\ generateNumber' = [generateNumber EXCEPT ![e] = r.after]
       /\ lastCall' = [lastCall EXCEPT ![e] = r.call]
       /\ local' = [local EXCEPT
            ![e].generateSentences.numWords = r.result,
            ![e].generateSentences.sentence = <<>>,
            ![e].generateSentences.j = 0,
            ![e].generateWords = [length |-> r.result, i |-> 0,
                                  words |-> <<>>]]
  /\ pc' = CallFrom(e, "generateWords", "generateSentences:words")
  /\ UNCHANGED <<props, generated, outcome, connects, frame>>

\* generateSentences: one iteration of the loop over the words of a
\* sentence (lorem.ts:198-211)
GenerateSentencesWord(e) ==
  LET f == local[e].generateSentences
      words == local[e].words
      word == words[f.j + 1]
  IN
  /\ At(e, "generateSentences:words")
  /\ f.j < Len(words)
  /\ IF f.j = 0
     THEN /\ local' = [local EXCEPT
               ![e].generateSentences.sentence = @ \o CapitalizeFirst(word),
               ![e].generateSentences.j = @ + 1]
          /\ lastCall' = [lastCall EXCEPT ![e] = NoCall]
          /\ UNCHANGED generateNumber
     ELSE IF f.j < Len(words) - 3
     THEN \E value \in NextValues(generateNumber[e]) :
          LET addComma == AddComma(value)
              g == Advance(generateNumber[e], value)
          IN
          /\ local' = [local EXCEPT
               ![e].generateSentences.sentence =
                  @ \o (IF addComma THEN <<",", " ">> ELSE <<>>)
                    \o <<" ">> \o word,
               ![e].generateSentences.j = @ + 1]
          /\ lastCall' = [lastCall EXCEPT ![e] =
               [fn |-> "addComma", range |-> Undefined, drew |-> TRUE,
                value |-> value,
                result |-> IF addComma THEN Fin(1) ELSE Fin(0),
                before |-> generateNumber[e], after |-> g]]
          /\ generateNumber' = [generateNumber EXCEPT ![e] = g]
     ELSE /\ local' = [local EXCEPT
               ![e].generateSentences.sentence = @ \o <<" ">> \o word,
               ![e].generateSentences.j = @ + 1]
          /\ lastCall' = [lastCall EXCEPT ![e] = NoCall]
          /\ UNCHANGED generateNumber
  /\ UNCHANGED <<props, generated, pc, outcome, connects, frame>>

\* generateSentences: the sentence is complete (lorem.ts:212)
GenerateSentencesEnd(e) ==
  LET f == local[e].generateSentences
      sentences == f.sentences \o f.sentence \o <<".", " ">>
  IN
  /\ At(e, "generateSentences:words")
  /\ ~(f.j < Len(local[e].words))
  /\ IF Len(sentences) > MaxStringLength
     THEN Throw(e)
     ELSE /\ local' = [local EXCEPT
               ![e].generateSentences.sentences = sentences,
               ![e].generateSentences.i = @ + 1]
          /\ pc' = Goto(e, "generateSentences:for")
          /\ lastCall' = [lastCall EXCEPT ![e] = NoCall]
          /\ UNCHANGED <<props, generated, generateNumber, outcome, connects, frame>>

\* generateSentences: the loop ends, return sentences.trim() (lorem.ts:214)
GenerateSentencesReturn(e) ==
  /\ At(e, "generateSentences:for")
  /\ ~JsLess(local[e].generateSentences.i,
             local[e].generateSentences.numSentences)
  /\ local' = [local EXCEPT
       ![e].string = Trim(local[e].generateSentences.sentences)]
  /\ pc' = ReturnFrom(e)
  /\ lastCall' = [lastCall EXCEPT ![e] = NoCall]
  /\ UNCHANGED <<props, generated, generateNumber, outcome, connects, frame>>

\* generateParagraphs: resolve the number of paragraphs (lorem.ts:176-177)
GenerateParagraphs(e) ==
  /\ At(e, "generateParagraphs")
  /\ \E value \in NextValues(generateNumber[e]) :
       LET r == Resolve(e, length[e], value) IN
       /\ generateNumber' = [generateNumber EXCEPT ![e] = r.after]
       /\ lastCall' = [lastCall EXCEPT ![e] = r.call]
       /\ local' = [local EXCEPT
            ![e].generateParagraphs.numParagraphs = r.result,
            ![e].generateParagraphs.paragraphs = <<>>,
            ![e].generateParagraphs.i = 0]
  /\ pc' = Goto(e, "generateParagraphs:for")
  /\ UNCHANGED <<props, generated, outcome, connects, frame>>

\* generateParagraphs: a paragraph begins: call generateSentences
\* (lorem.ts:178-179)
GenerateParagraphsFor(e) ==
  /\ At(e, "generateParagraphs:for")
  /\ JsLess(local[e].generateParagraphs.i,
            local[e].generateParagraphs.numParagraphs)
  /\ pc' = CallFrom(e, "generateSentences", "generateParagraphs:sentences")
  /\ lastCall' = [lastCall EXCEPT ![e] = NoCall]
  /\ UNCHANGED <<props, generated, generateNumber, local, outcome, connects, frame>>

\* generateParagraphs: wrap the sentences in <p> (lorem.ts:180)
GenerateParagraphsAppend(e) ==
  LET paragraphs == local[e].generateParagraphs.paragraphs
                      \o Wrap("p", local[e].string)
  IN
  /\ At(e, "generateParagraphs:sentences")
  /\ IF Len(paragraphs) > MaxStringLength
     THEN Throw(e)
     ELSE /\ local' = [local EXCEPT
               ![e].generateParagraphs.paragraphs = paragraphs,
               ![e].generateParagraphs.i = @ + 1]
          /\ pc' = Goto(e, "generateParagraphs:for")
          /\ lastCall' = [lastCall EXCEPT ![e] = NoCall]
          /\ UNCHANGED <<props, generated, generateNumber, outcome, connects, frame>>

\* generateParagraphs: the loop ends, return paragraphs (lorem.ts:182)
GenerateParagraphsReturn(e) ==
  /\ At(e, "generateParagraphs:for")
  /\ ~JsLess(local[e].generateParagraphs.i,
             local[e].generateParagraphs.numParagraphs)
  /\ local' = [local EXCEPT
       ![e].string = local[e].generateParagraphs.paragraphs]
  /\ pc' = ReturnFrom(e)
  /\ lastCall' = [lastCall EXCEPT ![e] = NoCall]
  /\ UNCHANGED <<props, generated, generateNumber, outcome, connects, frame>>

\* generateList: resolve the number of items (lorem.ts:159-160)
GenerateList(e) ==
  /\ At(e, "generateList")
  /\ \E value \in NextValues(generateNumber[e]) :
       LET r == Resolve(e, length[e], value) IN
       /\ generateNumber' = [generateNumber EXCEPT ![e] = r.after]
       /\ lastCall' = [lastCall EXCEPT ![e] = r.call]
       /\ local' = [local EXCEPT
            ![e].generateList.numItems = r.result,
            ![e].generateList.items = <<>>,
            ![e].generateList.i = 0]
  /\ pc' = Goto(e, "generateList:for")
  /\ UNCHANGED <<props, generated, outcome, connects, frame>>

\* generateList: an item begins: resolve its number of words and call
\* generateWords (lorem.ts:161-163)
GenerateListFor(e) ==
  /\ At(e, "generateList:for")
  /\ JsLess(local[e].generateList.i, local[e].generateList.numItems)
  /\ \E value \in NextValues(generateNumber[e]) :
       LET r == Resolve(e, wordsPerSentence[e], value) IN
       /\ generateNumber' = [generateNumber EXCEPT ![e] = r.after]
       /\ lastCall' = [lastCall EXCEPT ![e] = r.call]
       /\ local' = [local EXCEPT
            ![e].generateList.numWords = r.result,
            ![e].generateWords = [length |-> r.result, i |-> 0,
                                  words |-> <<>>]]
  /\ pc' = CallFrom(e, "generateWords", "generateList:words")
  /\ UNCHANGED <<props, generated, outcome, connects, frame>>

\* The item text with every word capitalized, as in a title
ItemText_everyWord(item) == Title(Split(item, " "))

\* The <li> or <dd> text of an item (lorem.ts:166, 168)
ItemText(item) == CapitalizeFirst(item)

\* generateList: join the words; a dl calls generateTitle for the term,
\* another list appends the <li> (lorem.ts:164-169)
GenerateListItem(e) ==
  LET item == Join(local[e].words, <<" ">>)
      items == local[e].generateList.items \o Wrap("li", ItemText(item))
  IN
  /\ At(e, "generateList:words")
  /\ IF type[e] = "dl"
     THEN /\ local' = [local EXCEPT ![e].generateList.item = item]
          /\ pc' = CallFrom(e, "generateTitle", "generateList:title")
          /\ lastCall' = [lastCall EXCEPT ![e] = NoCall]
          /\ UNCHANGED <<props, generated, generateNumber, outcome, connects, frame>>
     ELSE IF Len(items) > MaxStringLength
     THEN Throw(e)
     ELSE /\ local' = [local EXCEPT
               ![e].generateList.item = item,
               ![e].generateList.items = items,
               ![e].generateList.i = @ + 1]
          /\ pc' = Goto(e, "generateList:for")
          /\ lastCall' = [lastCall EXCEPT ![e] = NoCall]
          /\ UNCHANGED <<props, generated, generateNumber, outcome, connects, frame>>

\* generateList of a dl: append the <dt> and the <dd> (lorem.ts:166)
GenerateListTerm(e) ==
  LET items == local[e].generateList.items
                 \o Wrap("dt", local[e].string)
                 \o Wrap("dd", ItemText(local[e].generateList.item))
  IN
  /\ At(e, "generateList:title")
  /\ IF Len(items) > MaxStringLength
     THEN Throw(e)
     ELSE /\ local' = [local EXCEPT
               ![e].generateList.items = items,
               ![e].generateList.i = @ + 1]
          /\ pc' = Goto(e, "generateList:for")
          /\ lastCall' = [lastCall EXCEPT ![e] = NoCall]
          /\ UNCHANGED <<props, generated, generateNumber, outcome, connects, frame>>

\* generateList: the loop ends, return the container (lorem.ts:171)
GenerateListReturn(e) ==
  /\ At(e, "generateList:for")
  /\ ~JsLess(local[e].generateList.i, local[e].generateList.numItems)
  /\ local' = [local EXCEPT
       ![e].string = Wrap(type[e], local[e].generateList.items)]
  /\ pc' = ReturnFrom(e)
  /\ lastCall' = [lastCall EXCEPT ![e] = NoCall]
  /\ UNCHANGED <<props, generated, generateNumber, outcome, connects, frame>>

\* ------------------------------------------------------------------------
\* Configurations
\* ------------------------------------------------------------------------

Config(t, l, w, sp, sd) ==
  [type |-> t, length |-> l, wordsPerSentence |-> w,
   sentencesPerParagraph |-> sp, seed |-> sd]

\* The string "a-b"
Range(a, b) == Str(<<a, "-", b>>)

Seeded == {Num(Fin(0)), Num(Fin(1)), Num(Fin(2)), Num(Fin(3))}

AnySeed == Seeded \cup {Undefined}

\* Size specifications of every form: ranges, inverted ranges, ranges with a
\* missing, malformed or infinite bound, literal strings and numbers.
Ranges ==
  {Range("1", "2"), Range("0", "1"), Range("2", "2"), Range("0", "2"),
   Range("4", "4"), Range("5", "5"), DefaultLength, DefaultWordsPerSentence,
   DefaultSentencesPerParagraph}

InvertedRanges ==
  {Range("2", "0"), Range("1", "0"), Range("3", "1"), Range("5", "3"),
   Str(<<"2", "-">>), Str(<<"1", "2", "-", "9">>)}

OddRanges ==
  {Str(<<"-", "2">>), Str(<<"x", "-", "2">>), Str(<<"1", "-", "2", "-", "3">>),
   Str(<<"-">>), Str(<<"1", "-">> \o InfinityWord),
   Str(InfinityWord \o <<"-", "1">>),
   Str(InfinityWord \o <<"-">> \o InfinityWord)}

Literals ==
  {Str(<<"7">>), Str(<<"2">>), Str(<<"0">>), Str(<<"1", "2">>), Str(<<>>),
   Str(<<"x">>), Str(InfinityWord),
   Num(Fin(7)), Num(Fin(2)), Num(Fin(0)), Num(Fin(-1)), Num(NaN),
   Num(Infinity), Num(NegInfinity)}

\* Sentences without words: every size specification as the length, under
\* every generator.
SizeConfigs ==
  {Config("sentence", l, Num(Fin(0)), DefaultSentencesPerParagraph, sd) :
     l \in Ranges \cup InvertedRanges \cup OddRanges \cup Literals,
     sd \in AnySeed}

\* Titles
TitleConfigs ==
  {Config("title", l, DefaultWordsPerSentence, DefaultSentencesPerParagraph,
          sd) :
     l \in {Range("1", "2"), DefaultLength, Num(Fin(3)), Str(<<"3">>),
            Range("2", "0")},
     sd \in AnySeed}
  \cup
  {Config("title", l, DefaultWordsPerSentence, DefaultSentencesPerParagraph,
          sd) :
     l \in {DefaultWordsPerSentence, Num(Infinity)}, sd \in Seeded}

\* Sentences
SentenceConfigs ==
  {Config("sentence", l, w, DefaultSentencesPerParagraph, sd) :
     l \in {Num(Fin(1)), Str(<<"1">>)},
     w \in {Range("5", "5"), Str(<<"6">>), Range("1", "2"), Range("2", "0")},
     sd \in AnySeed}
  \cup
  {Config("sentence", DefaultLength, w, DefaultSentencesPerParagraph, sd) :
     w \in {Range("5", "5"), Num(Fin(6)), Str(<<"7">>)}, sd \in Seeded}
  \cup
  {Config("sentence", l, DefaultWordsPerSentence,
          DefaultSentencesPerParagraph, sd) :
     l \in {Num(Fin(1)), Range("1", "2")}, sd \in Seeded}

\* Paragraphs
ParagraphConfigs ==
  {Config("paragraph", l, Num(Fin(1)), sp, sd) :
     l \in {Range("2", "2"), Range("1", "2"), Num(Fin(1))},
     sp \in {Range("1", "1"), DefaultSentencesPerParagraph},
     sd \in AnySeed}
  \cup
  {Config("paragraph", Num(Fin(1)), Range("1", "2"), Range("1", "1"), sd) :
     sd \in AnySeed}
  \cup
  {Config("paragraph", l, w, sp, sd) :
     l \in {Range("2", "2"), Num(Fin(2))},
     w \in {Range("5", "5"), Range("1", "2")},
     sp \in {Range("1", "1"), Num(Fin(3))},
     sd \in Seeded}
  \cup
  {Config("paragraph", Str(InfinityWord), Num(Fin(0)), Range("1", "1"), sd) :
     sd \in AnySeed}

\* Lists
ListConfigs ==
  {Config(t, l, w, DefaultSentencesPerParagraph, sd) :
     t \in {"ul", "ol"},
     l \in {Range("1", "2"), Num(Fin(2))},
     w \in {Range("1", "2"), Num(Fin(0)), Range("0", "1")},
     sd \in AnySeed}
  \cup
  {Config(t, l, Num(Fin(0)), DefaultSentencesPerParagraph, sd) :
     t \in {"ul", "ol"},
     l \in {Range("4", "4"), Num(Infinity)},
     sd \in AnySeed}
  \cup
  {Config("ul", Range("4", "4"), Num(Fin(1)), DefaultSentencesPerParagraph,
          Undefined)}
  \cup
  {Config(t, l, w, DefaultSentencesPerParagraph, sd) :
     t \in {"ul", "ol"},
     l \in {Range("4", "4"), DefaultLength},
     w \in {Num(Fin(3)), Range("1", "2"), Range("5", "5"),
            DefaultWordsPerSentence},
     sd \in Seeded}
  \cup
  {Config("dl", l, w, DefaultSentencesPerParagraph, sd) :
     l \in {Range("1", "2"), Num(Fin(1))},
     w \in {Range("1", "2"), Num(Fin(2))},
     sd \in AnySeed}
  \cup
  {Config("dl", l, w, DefaultSentencesPerParagraph, sd) :
     l \in {Range("4", "4"), Str(InfinityWord)},
     w \in {Num(Fin(1))},
     sd \in Seeded}

Configs ==
  SizeConfigs \cup TitleConfigs \cup SentenceConfigs \cup ParagraphConfigs
    \cup ListConfigs

\* The configurations of a page that holds two elements
PairConfigs ==
  {Config(t, Range("1", "2"), Num(Fin(1)), Range("1", "1"), sd) :
     t \in {"title", "sentence", "paragraph", "ul", "dl"},
     sd \in {Num(Fin(1)), Num(Fin(3))}}

\* What else runs on the page
OtherConfigs ==
  {Config("title", Range("1", "2"), Num(Fin(1)), Range("1", "1"), Undefined),
   Config("ol", Range("1", "2"), Num(Fin(1)), Range("1", "1"), Num(Fin(2)))}

Types == {"title", "sentence", "paragraph", "ol", "ul", "dl"}

\* The configurations whose runs are followed to their end: literal sizes,
\* finite and infinite, under both generators
RunConfigs ==
  {Config(t, l, Num(Fin(1)), Range("1", "1"), sd) :
     t \in Types, l \in {Num(Fin(1)), Str(<<"2">>)},
     sd \in {Undefined, Num(Fin(1))}}
  \cup
  {Config("sentence", Num(Fin(1)), Str(<<"5">>), Range("1", "1"), sd) :
     sd \in Seeded}
  \cup
  {Config(t, l, Num(Fin(0)), Range("1", "1"), sd) :
     t \in {"sentence", "paragraph", "ul"},
     l \in {Num(Infinity), Str(InfinityWord)},
     sd \in {Undefined, Num(Fin(1))}}
  \cup
  {Config(t, Num(Infinity), Num(Fin(1)), Range("1", "1"), Num(Fin(2))) :
     t \in {"title", "dl"}}

\* The element as its class constructs it (lorem.ts:75-106)
DefaultConfig ==
  Config(DefaultType, DefaultLength, DefaultWordsPerSentence,
         DefaultSentencesPerParagraph, Undefined)

\* A page that holds the elements els, configured by cfg
Page(els, cfg) ==
  /\ elements = els
  /\ type = [e \in Elements |-> cfg[e].type]
  /\ length = [e \in Elements |-> cfg[e].length]
  /\ seed = [e \in Elements |-> cfg[e].seed]
  /\ wordsPerSentence = [e \in Elements |-> cfg[e].wordsPerSentence]
  /\ sentencesPerParagraph =
       [e \in Elements |-> cfg[e].sentencesPerParagraph]
  /\ generated = [e \in Elements |-> <<>>]
  /\ generateNumber = [e \in Elements |-> MathRandom]
  /\ pc = [e \in Elements |-> <<>>]
  /\ local = [e \in Elements |-> InitLocal]
  /\ outcome = [e \in Elements |-> "new"]
  /\ connects = [e \in Elements |-> 0]
  /\ atConnect = [e \in Elements |-> cfg[e]]
  /\ rendered = [e \in Elements |-> <<>>]
  /\ lastCall = [e \in Elements |-> NoCall]

\* One element on the page, in any configuration
Init ==
  \E c \in Configs : Page({1}, [e \in Elements |->
                                  IF e = 1 THEN c ELSE DefaultConfig])

\* Two elements on the page
InitPair ==
  \E c1 \in PairConfigs : \E c2 \in {c1} \cup OtherConfigs :
    Page(Elements, [e \in Elements |-> IF e = 1 THEN c1 ELSE c2])

\* The element is inserted into the document
Connect(e) == connects[e] = 0 /\ ConnectedCallback(e)

\* The element is moved within the document: connectedCallback runs again
Reconnect(e) == connects[e] > 0 /\ ConnectedCallback(e)

Step(e) ==
  \/ GenerateContentReturn(e)
  \/ GenerateWords(e)
  \/ GenerateWordsReturn(e)
  \/ GenerateTitle(e)
  \/ GenerateTitleReturn(e)
  \/ GenerateSentences(e)
  \/ GenerateSentencesFor(e)
  \/ GenerateSentencesWord(e)
  \/ GenerateSentencesEnd(e)
  \/ GenerateSentencesReturn(e)
  \/ GenerateParagraphs(e)
  \/ GenerateParagraphsFor(e)
  \/ GenerateParagraphsAppend(e)
  \/ GenerateParagraphsReturn(e)
  \/ GenerateList(e)
  \/ GenerateListFor(e)
  \/ GenerateListItem(e)
  \/ GenerateListTerm(e)
  \/ GenerateListReturn(e)

Next == \E e \in Elements : Connect(e) \/ Step(e)

Spec == Init /\ [][Next]_vars

NextPair == \E e \in Elements : Connect(e) \/ Reconnect(e) \/ Step(e)

PairSpec == InitPair /\ [][NextPair]_vars

\* The values the properties take while an element lives on a page
TypeValues == {"paragraph", "dl"}

LengthValues == {Range("1", "2"), Num(Infinity)}

WordsPerSentenceValues == {Num(Fin(1)), Num(Fin(2))}

SentencesPerParagraphValues == {DefaultSentencesPerParagraph, Range("1", "1")}

SeedValues == {Num(Fin(1)), Num(Fin(2))}

LifeConfigs ==
  {Config(t, l, w, sp, sd) :
     t \in TypeValues, l \in LengthValues, w \in WordsPerSentenceValues,
     sp \in SentencesPerParagraphValues, sd \in SeedValues}

\* A reactive property of the element is assigned (lorem.ts:74-103): the
\* field changes and nothing else.  connectedCallback is synchronous, so no
\* assignment happens while it is on the stack.
PropertyChange(e) ==
  /\ e \in elements
  /\ pc[e] = <<>>
  /\ \/ \E v \in TypeValues \ {type[e]} :
          /\ type' = [type EXCEPT ![e] = v]
          /\ UNCHANGED <<length, seed, wordsPerSentence,
                         sentencesPerParagraph>>
     \/ \E v \in LengthValues \ {length[e]} :
          /\ length' = [length EXCEPT ![e] = v]
          /\ UNCHANGED <<type, seed, wordsPerSentence,
                         sentencesPerParagraph>>
     \/ \E v \in SeedValues \ {seed[e]} :
          /\ seed' = [seed EXCEPT ![e] = v]
          /\ UNCHANGED <<type, length, wordsPerSentence,
                         sentencesPerParagraph>>
     \/ \E v \in WordsPerSentenceValues \ {wordsPerSentence[e]} :
          /\ wordsPerSentence' = [wordsPerSentence EXCEPT ![e] = v]
          /\ UNCHANGED <<type, length, seed, sentencesPerParagraph>>
     \/ \E v \in SentencesPerParagraphValues \ {sentencesPerParagraph[e]} :
          /\ sentencesPerParagraph' =
               [sentencesPerParagraph EXCEPT ![e] = v]
          /\ UNCHANGED <<type, length, seed, wordsPerSentence>>
  /\ UNCHANGED <<elements, generated, generateNumber, pc, local, outcome,
                 connects, frame, lastCall>>

\* render() of a connected element: the DOM receives this.generated
\* (lorem.ts:271-275)
Render(e) ==
  /\ e \in elements
  /\ pc[e] = <<>>
  /\ connects[e] > 0
  /\ rendered' = [rendered EXCEPT ![e] = generated[e]]
  /\ UNCHANGED <<props, generated, generateNumber, pc, local, outcome,
                 connects, atConnect, lastCall>>

\* One element on the page, in a configuration of LifeConfigs
InitLife ==
  \E c \in LifeConfigs : Page({1}, [e \in Elements |->
                                      IF e = 1 THEN c ELSE DefaultConfig])

NextLife ==
  \E e \in Elements :
    Connect(e) \/ Reconnect(e) \/ PropertyChange(e) \/ Render(e) \/ Step(e)

\* The life of an element: connects, property changes and renders
LifeSpec == InitLife /\ [][NextLife]_vars

\* One element on the page, in a configuration of RunConfigs
InitRun ==
  \E c \in RunConfigs : Page({1}, [e \in Elements |->
                                     IF e = 1 THEN c ELSE DefaultConfig])

\* connectedCallback is synchronous: once it has begun, it keeps running
FairSpec == InitRun /\ [][Next]_vars /\ \A e \in Elements : WF_vars(Step(e))

\* ------------------------------------------------------------------------
\* Properties of getNumberWithinRange and clampRandom
\* ------------------------------------------------------------------------

\* A string "{min}-{max}" of two non-negative integers
IsRangeString(range) ==
  /\ range.typeof = "string"
  /\ LET parts == Split(range.str, "-") IN
     /\ Len(parts) = 2
     /\ \A p \in 1..2 :
          /\ parts[p] # <<>>
          /\ \A i \in 1..Len(parts[p]) : IsDigit(parts[p][i])

RangeMin(range) == DecimalValue(Split(range.str, "-")[1])

RangeMax(range) == DecimalValue(Split(range.str, "-")[2])

\* A number, or a string without "-"
IsLiteralSpec(range) ==
  \/ range.typeof = "number"
  \/ range.typeof = "string" /\ \A i \in 1..Len(range.str) : range.str[i] # "-"

\* The element has just resolved a size specification
Resolved(e) == lastCall[e].fn = "getNumberWithinRange"

\* C1: resolving a range "{min}-{max}" with min <= max returns an integer r
\* with min <= r <= max, whatever value the generator returns, and some
\* generator value yields min and some value yields max.
C1_RangeInclusive ==
  \A e \in Elements :
    (Resolved(e) /\ IsRangeString(lastCall[e].range)
       /\ RangeMin(lastCall[e].range) <= RangeMax(lastCall[e].range))
    => LET min == RangeMin(lastCall[e].range)
           max == RangeMax(lastCall[e].range)
           r == lastCall[e].result
       IN /\ lastCall[e].drew
          /\ r.t = "fin"
          /\ min <= r.n /\ r.n <= max
          /\ r = clampRandom(lastCall[e].value, Fin(min), Fin(max))
          /\ \E v \in Grid : clampRandom(v, Fin(min), Fin(max)) = Fin(min)
          /\ \E v \in Grid : clampRandom(v, Fin(min), Fin(max)) = Fin(max)

\* The default length "3-5" has just been resolved to its upper bound
C1_Witness ==
  \E e \in Elements :
    /\ Resolved(e)
    /\ lastCall[e].range = DefaultLength
    /\ lastCall[e].result = Fin(5)
    /\ generateNumber[e].kind = "random"

\* C6: resolving a literal size specification returns its numeric value
\* (0 when it has none) and does not call the number generator: the
\* generator is the same before and after.
C6_LiteralFrame ==
  \A e \in Elements :
    (Resolved(e) /\ IsLiteralSpec(lastCall[e].range))
    => LET c == lastCall[e] IN
       /\ ~c.drew
       /\ c.after = c.before
       /\ generateNumber[e] = c.before
       /\ c.range.typeof = "number" /\ c.range.num.t # "nan"
            => c.result = c.range.num
       /\ c.range.typeof = "number" /\ c.range.num.t = "nan"
            => c.result = Fin(0)
       /\ c.range.typeof = "string" /\ Number(c.range.str).t # "nan"
            => c.result = Number(c.range.str)
       /\ c.range.typeof = "string" /\ Number(c.range.str).t = "nan"
            => c.result = Fin(0)

\* A literal string has just been resolved by a seeded generator that has
\* already been called
C6_Witness ==
  \E e \in Elements :
    /\ Resolved(e)
    /\ lastCall[e].range.typeof = "string"
    /\ IsLiteralSpec(lastCall[e].range)
    /\ lastCall[e].result = Fin(7)
    /\ lastCall[e].before.kind = "seeded"
    /\ lastCall[e].before.currentSeed \in 1..(Den - 1)

\* C9: a comma is inserted exactly when the generator value is below 1/10
C9_OneInTen ==
  \A e \in Elements :
    lastCall[e].fn = "addComma"
    => (lastCall[e].result = Fin(1) <=> 10 * lastCall[e].value < Den)

\* An inverted range "{min}-{max}", max < min
IsInvertedRange(range) ==
  IsRangeString(range) /\ RangeMax(range) < RangeMin(range)

\* C10 as stated: for an inverted range some generator value yields a count
\* outside the interval spanned by the bounds, or a negative count
C10_InvertedEscapes ==
  \A e \in Elements :
    (Resolved(e) /\ IsInvertedRange(lastCall[e].range))
    => \E v \in Grid :
         LET r == getNumberWithinRange(lastCall[e].range, v).result IN
         \/ r.t # "fin"
         \/ r.n < 0
         \/ r.n < RangeMax(lastCall[e].range)
         \/ r.n > RangeMin(lastCall[e].range)

\* C10, amended: for an inverted range every generator value yields an
\* integer r with max < r <= min: never negative and never outside the
\* interval spanned by the bounds.
C10_InvertedStaysInside ==
  \A e \in Elements :
    (Resolved(e) /\ IsInvertedRange(lastCall[e].range))
    => LET min == RangeMin(lastCall[e].range)
           max == RangeMax(lastCall[e].range)
       IN /\ lastCall[e].result.t = "fin"
          /\ max < lastCall[e].result.n
          /\ lastCall[e].result.n <= min
          /\ \A v \in Grid :
               LET r == getNumberWithinRange(lastCall[e].range, v).result IN
               r.t = "fin" /\ max < r.n /\ r.n <= min /\ r.n >= 0

\* The inverted range "5-3" has just been resolved to 4
C10_Witness ==
  \E e \in Elements :
    /\ Resolved(e)
    /\ lastCall[e].range = Range("5", "3")
    /\ lastCall[e].result = Fin(4)

\* ------------------------------------------------------------------------
\* Reading the generated string
\* ------------------------------------------------------------------------

LowerCase == {"a", "d", "e", "t"}

UpperCase == {"A", "D", "E", "T"}

IsLetter(c) == c \in LowerCase \cup UpperCase

CountChar(s, c) == Cardinality({i \in 1..Len(s) : s[i] = c})

StartsWith(s, prefix) ==
  Len(prefix) <= Len(s) /\ SubSeq(s, 1, Len(prefix)) = prefix

\* The positions at which sep occurs in s
Occurrences(s, sep) ==
  {i \in 1..(Len(s) - Len(sep) + 1) : SubSeq(s, i, i + Len(sep) - 1) = sep}

\* The pieces of s between the occurrences of the separator sep
RECURSIVE Pieces(_, _)
Pieces(s, sep) ==
  IF Occurrences(s, sep) = {} THEN <<s>>
  ELSE LET p == CHOOSE i \in Occurrences(s, sep) :
                  \A k \in Occurrences(s, sep) : i <= k
       IN <<SubSeq(s, 1, p - 1)>>
            \o Pieces(SubSeq(s, p + Len(sep), Len(s)), sep)

\* The positions where a word of s begins, and where one ends
WordStarts(s) ==
  {i \in 1..Len(s) : IsLetter(s[i]) /\ (i = 1 \/ ~IsLetter(s[i - 1]))}

WordEnds(s) ==
  {i \in 1..Len(s) : IsLetter(s[i]) /\ (i = Len(s) \/ ~IsLetter(s[i + 1]))}

WordCount(s) == Cardinality(WordStarts(s))

\* The characters between the word that begins at i and the word before it
Separator(s, i) ==
  LET end == CHOOSE k \in WordEnds(s) :
               k < i /\ \A m \in WordEnds(s) : m < i => m <= k
  IN SubSeq(s, end + 1, i - 1)

\* Only the first letter of s is a capital
FirstLetterCapitalized(s) ==
  /\ s # <<>> => s[1] \in UpperCase
  /\ \A i \in 2..Len(s) : s[i] \notin UpperCase

\* The sentences of a string "S. S. S.": the text before each period,
\* without the space that follows the period before
SentencesOf(s) ==
  LET parts == Pieces(s, <<".">>) IN
  [k \in 1..(Len(parts) - 1) |->
     IF k > 1 /\ StartsWith(parts[k], <<" ">>) THEN Tail(parts[k])
     ELSE parts[k]]

\* s is sentences that each end in a period, a space between them, and
\* nothing after the last period
IsSentences(s) ==
  LET parts == Pieces(s, <<".">>) IN
  /\ parts[Len(parts)] = <<>>
  /\ \A k \in 2..(Len(parts) - 1) : StartsWith(parts[k], <<" ">>)

\* The counts a size specification can resolve to
ResolvableCounts(range) ==
  {getNumberWithinRange(range, v).result : v \in Grid}

\* The run of connectedCallback on e has assigned this.generated
Returned(e) == outcome[e] = "returned"

\* ------------------------------------------------------------------------
\* Properties of the generated content
\* ------------------------------------------------------------------------

\* The text inside each <p> of s, when s is a sequence of <p>...</p>
ParagraphsOf(s) ==
  LET parts == Pieces(s, Close("p")) IN
  [k \in 1..(Len(parts) - 1) |->
     SubSeq(parts[k], Len(Open("p")) + 1, Len(parts[k]))]

IsParagraphs(s) ==
  LET parts == Pieces(s, Close("p")) IN
  /\ parts[Len(parts)] = <<>>
  /\ \A k \in 1..(Len(parts) - 1) :
       /\ StartsWith(parts[k], Open("p"))
       /\ CountChar(parts[k], "<") = 1

\* C3: for type = paragraph the number of <p> wrappers is the count resolved
\* from length, and the number of sentences in each <p> is a count resolved
\* from sentencesPerParagraph; with length "2-2" and sentencesPerParagraph
\* "1-1" there are exactly 2 wrappers of exactly 1 sentence.
C3_SentencesPerParagraph ==
  \A e \in Elements :
    (type[e] = "paragraph" /\ Returned(e))
    => LET ps == ParagraphsOf(generated[e]) IN
       /\ IsParagraphs(generated[e])
       /\ Fin(Len(ps)) = local[e].generateParagraphs.numParagraphs
       /\ \A k \in 1..Len(ps) :
            Fin(CountChar(ps[k], "."))
              \in ResolvableCounts(sentencesPerParagraph[e])
       /\ (length[e] = Range("2", "2")
             /\ sentencesPerParagraph[e] = Range("1", "1"))
          => /\ Len(ps) = 2
             /\ \A k \in 1..Len(ps) : CountChar(ps[k], ".") = 1

\* The configuration of C4: a sentence of "5-5" words, the length left at
\* its default
C4_Config(e) ==
  /\ type[e] = "sentence"
  /\ wordsPerSentence[e] = Range("5", "5")
  /\ length[e] = DefaultLength

\* C4 as stated: that configuration yields a single sentence of exactly 5
\* words, the first letter capitalized, one period, at the end
C4_SingleSentence ==
  \A e \in Elements :
    (C4_Config(e) /\ Returned(e))
    => /\ CountChar(generated[e], ".") = 1
       /\ generated[e][Len(generated[e])] = "."
       /\ WordCount(generated[e]) = 5
       /\ generated[e][1] \in UpperCase

\* C4, amended: that configuration yields 3 to 5 sentences, the count
\* resolved from length, a single space between them; each has exactly 5
\* words, its first letter capitalized and one period, and the string ends
\* with the period of the last one.
C4_ThreeToFiveSentences ==
  \A e \in Elements :
    (C4_Config(e) /\ Returned(e))
    => LET ss == SentencesOf(generated[e]) IN
       /\ IsSentences(generated[e])
       /\ Len(ss) \in 3..5
       /\ Fin(Len(ss)) = local[e].generateSentences.numSentences
       /\ generated[e][Len(generated[e])] = "."
       /\ \A k \in 1..Len(ss) :
            /\ WordCount(ss[k]) = 5
            /\ FirstLetterCapitalized(ss[k])
            /\ IsLetter(ss[k][Len(ss[k])])

\* That configuration has returned 5 sentences
C4_Witness ==
  \E e \in Elements :
    /\ C4_Config(e)
    /\ Returned(e)
    /\ CountChar(generated[e], ".") = 5

\* The text inside each <li> of s, when s is a sequence of <li>...</li>
ItemsOf(s) ==
  LET parts == Pieces(s, Close("li")) IN
  [k \in 1..(Len(parts) - 1) |->
     SubSeq(parts[k], Len(Open("li")) + 1, Len(parts[k]))]

IsItems(s) ==
  LET parts == Pieces(s, Close("li")) IN
  /\ parts[Len(parts)] = <<>>
  /\ \A k \in 1..(Len(parts) - 1) :
       /\ StartsWith(parts[k], Open("li"))
       /\ CountChar(parts[k], "<") = 1

\* s is words joined by single spaces: letters and spaces only, no space at
\* either end, no two spaces in a row (so no comma and no period)
IsWordRun(s) ==
  /\ \A i \in 1..Len(s) : IsLetter(s[i]) \/ s[i] = " "
  /\ s # <<>> => IsLetter(s[1]) /\ IsLetter(s[Len(s)])
  /\ \A i \in 1..(Len(s) - 1) : ~(s[i] = " " /\ s[i + 1] = " ")

\* C5: for type = ul or ol the output is one container that holds exactly
\* as many <li> items as the count resolved from length (4 for "4-4"); each
\* item is words joined by single spaces, their number a count resolved
\* from wordsPerSentence, only the first letter capitalized, without comma
\* or period.
C5_ListItems ==
  \A e \in Elements :
    (type[e] \in {"ul", "ol"} /\ Returned(e))
    => LET g == generated[e]
           inner == SubSeq(g, Len(Open(type[e])) + 1,
                           Len(g) - Len(Close(type[e])))
           items == ItemsOf(inner)
       IN /\ StartsWith(g, Open(type[e]))
          /\ SubSeq(g, Len(g) - Len(Close(type[e])) + 1, Len(g))
               = Close(type[e])
          /\ IsItems(inner)
          /\ Fin(Len(items)) = local[e].generateList.numItems
          /\ Fin(Len(items)) \in ResolvableCounts(length[e])
          /\ length[e] = Range("4", "4") => Len(items) = 4
          /\ \A k \in 1..Len(items) :
               /\ IsWordRun(items[k])
               /\ FirstLetterCapitalized(items[k])
               /\ Fin(WordCount(items[k]))
                    \in ResolvableCounts(wordsPerSentence[e])

\* A <ul> of "4-4" items has been returned, an item of two words in it
C5_Witness ==
  \E e \in Elements :
    /\ type[e] = "ul"
    /\ length[e] = Range("4", "4")
    /\ wordsPerSentence[e] = Range("1", "2")
    /\ Returned(e)
    /\ Len(ItemsOf(SubSeq(generated[e], 5, Len(generated[e]) - 5))) = 4
    /\ \E k \in 1..4 :
         WordCount(ItemsOf(SubSeq(generated[e], 5,
                                  Len(generated[e]) - 5))[k]) = 2

\* C8: in every generated sentence each word after the first is preceded by
\* a single space or by a comma and a single space, and the comma form
\* occurs only before a word j with 1 <= j < n - 3 in a sentence of n words.
C8_Separators ==
  \A e \in Elements :
    (type[e] = "sentence" /\ Returned(e))
    => LET ss == SentencesOf(generated[e]) IN
       /\ IsSentences(generated[e])
       /\ \A k \in 1..Len(ss) :
            LET t == ss[k]
                n == WordCount(t)
            IN /\ t # <<>> => IsLetter(t[1]) /\ IsLetter(t[Len(t)])
               /\ \A i \in WordStarts(t) :
                    i > 1 =>
                      LET j == Cardinality({m \in WordStarts(t) : m < i})
                      IN /\ Separator(t, i) \in {<<" ">>, <<",", " ">>}
                         /\ Separator(t, i) = <<",", " ">>
                              => (1 <= j /\ j < n - 3)

\* ------------------------------------------------------------------------
\* Properties of whole runs
\* ------------------------------------------------------------------------

\* Two elements with the same defined seed and the same other properties
SameSeededConfig(a, b) ==
  /\ seed[a].typeof # "undefined"
  /\ seed[a] = seed[b]
  /\ type[a] = type[b]
  /\ length[a] = length[b]
  /\ wordsPerSentence[a] = wordsPerSentence[b]
  /\ sentencesPerParagraph[a] = sentencesPerParagraph[b]

\* C2: runs with the same defined seed and the same type, length,
\* wordsPerSentence and sentencesPerParagraph return the same string: on two
\* elements, whatever the interleaving of their steps, and on one element,
\* whatever ran on the page in between.
C2_Determinism ==
  /\ [](\A a, b \in Elements :
          (SameSeededConfig(a, b) /\ Returned(a) /\ Returned(b))
          => generated[a] = generated[b])
  /\ [][\A e \in Elements :
          (/\ At(e, "generateContent")
           /\ Returned(e)'
           /\ connects[e] > 1
           /\ seed[e].typeof # "undefined")
          => generated'[e] = generated[e]]_vars

\* Two elements of the same seeded configuration have both returned, the
\* first one from its second run, and the content is not empty
C2_Witness ==
  /\ SameSeededConfig(1, 2)
  /\ connects[1] = 2
  /\ Returned(1)
  /\ Returned(2)
  /\ generated[1] # <<>>

\* C7: every run of connectedCallback that has begun returns its string
C7_Terminates ==
  \A e \in Elements : (outcome[e] = "running") ~> (outcome[e] = "returned")

\* ------------------------------------------------------------------------
\* The life of an element
\* ------------------------------------------------------------------------

\* The properties of e as they are now
Properties(e) ==
  Config(type[e], length[e], wordsPerSentence[e], sentencesPerParagraph[e],
         seed[e])

\* No call of connectedCallback on e is on the stack
Idle(e) == e \in elements /\ pc[e] = <<>>

\* s has the shape generateContent gives under the properties c: the
\* wrappers of c.type, as many as c.length resolves to
HasShapeOf(c, s) ==
  CASE c.type = "paragraph" ->
         /\ IsParagraphs(s)
         /\ Fin(Len(ParagraphsOf(s))) \in ResolvableCounts(c.length)
    [] c.type = "dl" ->
         /\ StartsWith(s, Open("dl"))
         /\ Fin(Cardinality(Occurrences(s, Open("dt"))))
              \in ResolvableCounts(c.length)
    [] OTHER -> TRUE

\* C11: generated changes only in connectedCallback.  It is the empty string
\* before the first connect; after any sequence of connects, property
\* changes and renders it is the result of generateContent under the
\* property values of the most recent connect, and property changes and
\* renders leave it as it is.
C11_GeneratedAtConnect ==
  /\ [](\A e \in Elements :
          /\ (Idle(e) /\ connects[e] = 0) => generated[e] = <<>>
          /\ (Idle(e) /\ connects[e] > 0)
               => /\ Returned(e)
                  /\ generated[e] = local[e].string
                  /\ HasShapeOf(atConnect[e], generated[e])
          /\ (e \in elements /\ pc[e] # <<>>)
               => Properties(e) = atConnect[e])
  /\ [][\A e \in Elements :
          generated'[e] # generated[e] => At(e, "generateContent")]_vars

\* ------------------------------------------------------------------------
\* The seed 0
\* ------------------------------------------------------------------------

\* connectedCallback has been called on e, whose seed is 0
SeedZero(e) == e \in elements /\ seed[e] = Num(Fin(0)) /\ connects[e] > 0

\* The bounds getNumberWithinRange parses from a range
ParsedMin(range) == Bound(Split(range.str, "-"), 1)

ParsedMax(range) == Bound(Split(range.str, "-"), 2)

\* The generator of e is the seeded one and its next value is 0
ZeroStream(e) ==
  /\ generateNumber[e].kind = "seeded"
  /\ NextValues(generateNumber[e]) = {0}

\* Every word drawn so far is the first of the dictionary
FirstWordOnly(e) ==
  /\ \A k \in 1..Len(local[e].generateWords.words) :
       local[e].generateWords.words[k] = DICTIONARY[1]
  /\ \A k \in 1..Len(local[e].words) : local[e].words[k] = DICTIONARY[1]

\* Every comma draw inserts the comma, and a returned sentence of n words
\* has a comma before each word j with 1 <= j < n - 3
CommaEverywhere(e) ==
  /\ lastCall[e].fn = "addComma"
       => lastCall[e].value = 0 /\ lastCall[e].result = Fin(1)
  /\ (type[e] = "sentence" /\ Returned(e))
       => \A k \in 1..Len(SentencesOf(generated[e])) :
            LET t == SentencesOf(generated[e])[k]
                n == WordCount(t)
            IN CountChar(t, ",") = IF n > 4 THEN n - 4 ELSE 0

====
